---------------------------- MODULE Spec2Model ----------------------------
(***************************************************************************)
(* EcoScore.AI dashboard (src/app.py): the column finder, the column       *)
(* normalisation, the sidebar filters, the two-product comparison, the     *)
(* what-if simulator and the carbon insights of one page pass.             *)
(*                                                                         *)
(* Column labels are sequences of one-character strings, so that strip(),  *)
(* lower() and the substring test of find_col are computed, not assumed.   *)
(* Cell values are records [t, n, s]: a number (t = "num"), a text         *)
(* (t = "str") or a missing value NaN (t = "nan").                         *)
(* Scales: carbon intensities are integers in tenths of a gCO2e, emission  *)
(* factors are integers in tenths, prices, EcoScores and recyclability     *)
(* scores are whole numbers.  The simulator computes in exact rationals.   *)
(***************************************************************************)
EXTENDS Integers, Sequences, FiniteSets, TLC

VARIABLES
    fc_cols,      \* find_col: the table's column labels (df.columns)
    fc_cands,     \* find_col: the candidates argument
    fc_result,    \* find_col: the returned value, Pending before the call
    loaded,       \* what load_data() returns: [cols, rows]
    df,           \* the script's DataFrame df: [cols, rows]
    COL,          \* COL_PRODUCT ... COL_RECYCLE, by canonical field
    pc,           \* position of the script in the page pass
    st_error,     \* st.error(...) was shown by the required-columns check
    error,        \* the exception that ended the pass, "none" if none
    df_view,      \* the filtered view: indices of df's rows, in order
    comp,         \* Compare Two Products: [p1, p2, rows] or NoOutput
    sim,          \* What-If simulator: its inputs and results, or NoOutput
    insights      \* Carbon Insights: indices of the above-average rows

findVars == <<fc_cols, fc_cands, fc_result>>
pageVars == <<loaded, df, COL, pc, st_error, error, df_view, comp, sim, insights>>
vars == <<fc_cols, fc_cands, fc_result, loaded, df, COL, pc, st_error, error,
          df_view, comp, sim, insights>>

(***************************************************************************)
(* Bounds of the model.                                                    *)
(***************************************************************************)
MaxCols == 2       \* find_col: columns of the table
MaxCands == 2      \* find_col: candidate aliases
MaxRows == 3       \* page pass: rows of the loaded table

(***************************************************************************)
(* Strings.                                                                *)
(***************************************************************************)
None == <<"<None>">>
Pending == <<"<pending>">>

UpperCase == <<"A","B","C","D","E","F","G","H","I","J","K","L","M",
               "N","O","P","Q","R","S","T","U","V","W","X","Y","Z">>
LowerCase == <<"a","b","c","d","e","f","g","h","i","j","k","l","m",
               "n","o","p","q","r","s","t","u","v","w","x","y","z">>
Whitespace == {" "}

Range(s) == {s[i] : i \in 1..Len(s)}

\* the lower-case letter of each upper-case letter
LowerMap ==
    [ch \in Range(UpperCase) |->
        LowerCase[CHOOSE i \in 1..Len(UpperCase) : UpperCase[i] = ch]]

\* str.lower() on one character
lowerChar(ch) == IF ch \in DOMAIN LowerMap THEN LowerMap[ch] ELSE ch

\* str.lower()
lower(s) == [i \in 1..Len(s) |-> lowerChar(s[i])]

RECURSIVE lstrip(_)
lstrip(s) == IF s # <<>> /\ Head(s) \in Whitespace THEN lstrip(Tail(s)) ELSE s

RECURSIVE rstrip(_)
rstrip(s) ==
    IF s # <<>> /\ s[Len(s)] \in Whitespace
    THEN rstrip(SubSeq(s, 1, Len(s) - 1))
    ELSE s

\* str.strip()
strip(s) == rstrip(lstrip(s))

\* a in b, for strings
IsSubstr(a, b) ==
    \E k \in 0..(Len(b) - Len(a)) : SubSeq(b, k + 1, k + Len(a)) = a

(***************************************************************************)
(* find_col (app.py 15-28).                                                *)
(***************************************************************************)
\* cols = [c.strip() for c in df.columns]
StripAll(columns) == [i \in 1..Len(columns) |-> strip(columns[i])]

\* low_map = {c.lower(): c for c in cols}: a later column replaces an
\* earlier one with the same lower-cased label
RECURSIVE LowMapGet(_, _, _)
LowMapGet(cols, key, j) ==
    IF j = 0 THEN None
    ELSE IF lower(cols[j]) = key THEN cols[j]
    ELSE LowMapGet(cols, key, j - 1)

\* first loop: for cand in candidates: if key in low_map: return low_map[key]
RECURSIVE ExactPass(_, _, _)
ExactPass(cols, candidates, i) ==
    IF i > Len(candidates) THEN None
    ELSE LET key == lower(strip(candidates[i]))
             hit == LowMapGet(cols, key, Len(cols))
         IN  IF hit # None THEN hit ELSE ExactPass(cols, candidates, i + 1)

\* inner loop of the fallback: for c in cols: if cl in c.lower(): return c
RECURSIVE FirstContaining(_, _, _)
FirstContaining(cols, cl, j) ==
    IF j > Len(cols) THEN None
    ELSE IF IsSubstr(cl, lower(cols[j])) THEN cols[j]
    ELSE FirstContaining(cols, cl, j + 1)

\* second loop: for cand in candidates: for c in cols: ...
RECURSIVE SubstringPass(_, _, _)
SubstringPass(cols, candidates, i) ==
    IF i > Len(candidates) THEN None
    ELSE LET cl == lower(strip(candidates[i]))
             hit == FirstContaining(cols, cl, 1)
         IN  IF hit # None THEN hit ELSE SubstringPass(cols, candidates, i + 1)

\* a plausible slip: the two passes merged into one loop over the
\* candidates, so a substring match of an earlier alias beats an exact
\* match of a later one
RECURSIVE MergedPass(_, _, _)
MergedPass(cols, candidates, i) ==
    IF i > Len(candidates) THEN None
    ELSE LET key == lower(strip(candidates[i]))
             exact == LowMapGet(cols, key, Len(cols))
             sub == FirstContaining(cols, key, 1)
         IN  IF exact # None THEN exact
             ELSE IF sub # None THEN sub
             ELSE MergedPass(cols, candidates, i + 1)

find_col_merged(columns, candidates) ==
    MergedPass(StripAll(columns), candidates, 1)

find_col(columns, candidates) ==
    LET cols == StripAll(columns)
        exact == ExactPass(cols, candidates, 1)
    IN  IF exact # None THEN exact ELSE SubstringPass(cols, candidates, 1)

(***************************************************************************)
(* The specification of find_col alone: any table of up to MaxCols labels  *)
(* and any list of up to MaxCands aliases over the pools below.            *)
(***************************************************************************)
SeqsUpTo(S, n) == UNION {[1..k -> S] : k \in 0..n}

\* labels with case variants, surrounding blanks, and containment
FindLabels ==
    { <<"a","b">>, <<"A","b">>, <<" ","a","B"," ">>, <<"x","a","b">>,
      <<"A","B","y">>, <<"a">>, <<"c">> }
FindAliases ==
    { <<"a","b">>, <<"A","B"," ">>, <<"a">>, <<"b","y">>, <<"c","d">>, <<"C">> }

FindInit ==
    /\ fc_cols \in SeqsUpTo(FindLabels, MaxCols)
    /\ fc_cands \in SeqsUpTo(FindAliases, MaxCands)
    /\ fc_result = Pending

\* one call of find_col(df, candidates)
FindColCall ==
    /\ fc_result = Pending
    /\ fc_result' = find_col(fc_cols, fc_cands)
    /\ UNCHANGED <<fc_cols, fc_cands>>

(***************************************************************************)
(* Column labels of the program and of the CSV files considered.           *)
(***************************************************************************)
L_Product == <<"P","r","o","d","u","c","t">>
L_product == <<"p","r","o","d","u","c","t">>
L_ProductName == <<"P","r","o","d","u","c","t"," ","N","a","m","e">>
L_Category == <<"C","a","t","e","g","o","r","y">>
L_category == <<"c","a","t","e","g","o","r","y">>
L_Price_USD == <<"P","r","i","c","e","_","U","S","D">>
L_Price == <<"P","r","i","c","e">>
L_PriceUSD == <<"P","r","i","c","e"," ","(","U","S","D",")">>
L_price_usd == <<"p","r","i","c","e","_","u","s","d">>
L_EcoScore == <<"E","c","o","S","c","o","r","e">>
L_ecoscore == <<"e","c","o","s","c","o","r","e">>
L_Carbon_Intensity_gCO2e == <<"C","a","r","b","o","n","_","I","n","t","e","n","s","i","t","y","_","g","C","O","2","e">>
L_Adj_Carbon_Intensity == <<"A","d","j","_","C","a","r","b","o","n","_","I","n","t","e","n","s","i","t","y">>
L_Carbon_Intensity == <<"C","a","r","b","o","n","_","I","n","t","e","n","s","i","t","y">>
L_carbon == <<"c","a","r","b","o","n">>
L_Packaging == <<"P","a","c","k","a","g","i","n","g">>
L_Packaging_Type == <<"P","a","c","k","a","g","i","n","g","_","T","y","p","e">>
L_PackagingType == <<"P","a","c","k","a","g","i","n","g"," ","T","y","p","e">>
L_Main_Ingredients == <<"M","a","i","n","_","I","n","g","r","e","d","i","e","n","t","s">>
L_Ingredients == <<"I","n","g","r","e","d","i","e","n","t","s">>
L_Country == <<"C","o","u","n","t","r","y">>
L_country == <<"c","o","u","n","t","r","y">>
L_Recyclability_Score == <<"R","e","c","y","c","l","a","b","i","l","i","t","y","_","S","c","o","r","e">>
L_Recyclability == <<"R","e","c","y","c","l","a","b","i","l","i","t","y">>
L_Country_Emission_Factor == <<"C","o","u","n","t","r","y","_","E","m","i","s","s","i","o","n","_","F","a","c","t","o","r">>
\* headers of CSV files only: a combined label, and a label with a blank
L_ProductCategory == <<"P","r","o","d","u","c","t"," ","C","a","t","e","g","o","r","y">>
L_EcoScore_blank == <<"E","c","o","S","c","o","r","e"," ">>

\* the canonical fields, in the order of app.py 48-56
Fields == <<"product", "category", "price", "ecoscore", "carbon", "pack",
            "ing", "country", "recycle">>
FieldSet == Range(Fields)

\* a copy-paste slip in the alias lists: COL_ING also looks for "Packaging"
CandidatesSlip(f) ==
    CASE f = "product"  -> <<L_Product, L_product, L_ProductName>>
      [] f = "category" -> <<L_Category, L_category>>
      [] f = "price"    -> <<L_Price_USD, L_Price, L_PriceUSD, L_price_usd>>
      [] f = "ecoscore" -> <<L_EcoScore, L_ecoscore>>
      [] f = "carbon"   -> <<L_Carbon_Intensity_gCO2e, L_Adj_Carbon_Intensity,
                             L_Carbon_Intensity, L_carbon>>
      [] f = "pack"     -> <<L_Packaging, L_Packaging_Type, L_PackagingType>>
      [] f = "ing"      -> <<L_Main_Ingredients, L_Ingredients, L_Packaging>>
      [] f = "country"  -> <<L_Country, L_country>>
      [] f = "recycle"  -> <<L_Recyclability_Score, L_Recyclability>>

\* the candidates lists of app.py 48-56
Candidates(f) ==
    CASE f = "product"  -> <<L_Product, L_product, L_ProductName>>
      [] f = "category" -> <<L_Category, L_category>>
      [] f = "price"    -> <<L_Price_USD, L_Price, L_PriceUSD, L_price_usd>>
      [] f = "ecoscore" -> <<L_EcoScore, L_ecoscore>>
      [] f = "carbon"   -> <<L_Carbon_Intensity_gCO2e, L_Adj_Carbon_Intensity,
                             L_Carbon_Intensity, L_carbon>>
      [] f = "pack"     -> <<L_Packaging, L_Packaging_Type, L_PackagingType>>
      [] f = "ing"      -> <<L_Main_Ingredients, L_Ingredients>>
      [] f = "country"  -> <<L_Country, L_country>>
      [] f = "recycle"  -> <<L_Recyclability_Score, L_Recyclability>>

(***************************************************************************)
(* Cell values and DataFrames.                                             *)
(***************************************************************************)
N(n) == [t |-> "num", n |-> n, s |-> ""]
T(s) == [t |-> "str", n |-> 0, s |-> s]
NaN == [t |-> "nan", n |-> 0, s |-> ""]

IsNum(v) == v.t = "num"
\* pd.isna / isnull on a cell
IsNull(v) == v.t = "nan"

\* pd.to_numeric(..., errors="coerce") on one cell: a number stays, anything
\* else becomes NaN
to_numeric(v) == IF IsNum(v) THEN v ELSE NaN

\* position of label c in cols, 0 when absent
ColIdx(cols, c) ==
    IF \E i \in 1..Len(cols) : cols[i] = c
    THEN CHOOSE i \in 1..Len(cols) : cols[i] = c
    ELSE 0

\* c in df.columns
HasCol(d, c) == ColIdx(d.cols, c) # 0

\* df[c] at row r
Cell(d, r, c) == d.rows[r][ColIdx(d.cols, c)]

NRows(d) == Len(d.rows)

\* df[c] = column, where column is a function of the row index: replaces
\* the column when it exists and appends it otherwise
SetCol(d, c, column) ==
    IF HasCol(d, c)
    THEN [d EXCEPT !.rows =
            [r \in 1..NRows(d) |->
                [d.rows[r] EXCEPT ![ColIdx(d.cols, c)] = column[r]]]]
    ELSE [cols |-> Append(d.cols, c),
          rows |-> [r \in 1..NRows(d) |-> Append(d.rows[r], column[r])]]

\* df[c].isnull().all(): true of a table without rows
AllNull(d, c) == \A r \in 1..NRows(d) : IsNull(Cell(d, r, c))

\* truthiness of a COL_* value: None and "" are falsy
Truthy(c) == c # None /\ c # <<>>

(***************************************************************************)
(* The CSV files considered: a header drawn from Schemas and up to MaxRows *)
(* records drawn from RecordPool.                                          *)
(***************************************************************************)
\* what each CSV column holds
KindOf(label) ==
    CASE label = L_Product                 -> "name"
      [] label = L_Category                -> "cat"
      [] label = L_ProductCategory         -> "cat"
      [] label = L_Price_USD               -> "price"
      [] label = L_EcoScore                -> "eco"
      [] label = L_Carbon_Intensity_gCO2e  -> "carbon"
      [] label = L_Adj_Carbon_Intensity    -> "adj"
      [] label = L_Packaging               -> "pack"
      [] label = L_Main_Ingredients        -> "ing"
      [] label = L_Country                 -> "country"
      [] label = L_country                 -> "country"
      [] label = L_Recyclability_Score     -> "rec"
      [] label = L_Country_Emission_Factor -> "factor"

\* the records considered, in the order of the file
RecordPool ==
    << [name |-> T("Soap"), cat |-> T("Bath"), price |-> N(5), eco |-> N(98),
       carbon |-> N(1055), adj |-> NaN, pack |-> T("Plastic"),
       ing |-> T("aqua"), country |-> T("India"), rec |-> N(40),
       factor |-> N(15)],
      [name |-> T("Soap"), cat |-> T("Home"), price |-> N(9), eco |-> N(2),
       carbon |-> N(3000), adj |-> N(2000), pack |-> T("Glass"),
       ing |-> T("soda"), country |-> T("France"), rec |-> N(90),
       factor |-> N(6)],
      [name |-> T("Gel"), cat |-> T("Bath"), price |-> T("abc"), eco |-> NaN,
       carbon |-> N(500), adj |-> T("n/a"), pack |-> T("Mystery"),
       ing |-> T(""), country |-> T("Mars"), rec |-> N(100),
       factor |-> N(10)],
      [name |-> T("Wax"), cat |-> T("Home"), price |-> N(7), eco |-> N(50),
       carbon |-> NaN, adj |-> N(-20), pack |-> T("Tube"),
       ing |-> T("wax"), country |-> T("India"), rec |-> NaN,
       factor |-> N(0)] >>

MaxMissing == 1    \* page pass: optional columns missing from the header

FullHeader ==
    { L_Product, L_Category, L_Price_USD, L_EcoScore_blank,
      L_Carbon_Intensity_gCO2e, L_Packaging, L_Main_Ingredients, L_Country,
      L_Recyclability_Score }
OptionalHeaders == FullHeader \ {L_Product, L_Category}

\* the order of the columns in a CSV file
HeaderOrder ==
    << L_Product, L_Category, L_ProductCategory, L_Price_USD, L_EcoScore_blank,
       L_Carbon_Intensity_gCO2e, L_Adj_Carbon_Intensity, L_Packaging,
       L_Main_Ingredients, L_Country, L_country, L_Recyclability_Score,
       L_Country_Emission_Factor >>

Schemas ==
    { FullHeader \ M :
        M \in {X \in SUBSET OptionalHeaders : Cardinality(X) <= MaxMissing} }
    \cup
    { FullHeader \ {L_Product},
      FullHeader \ {L_Category},
      (FullHeader \ {L_Product, L_Category}) \cup {L_ProductCategory},
      FullHeader \cup {L_Adj_Carbon_Intensity},
      (FullHeader \ {L_Carbon_Intensity_gCO2e}) \cup {L_Adj_Carbon_Intensity},
      FullHeader \cup {L_Country_Emission_Factor},
      (FullHeader \ {L_Country}) \cup {L_Country_Emission_Factor},
      (FullHeader \ {L_Country}) \cup {L_country} }

HeaderOf(schema) == SelectSeq(HeaderOrder, LAMBDA c : c \in schema)

\* the files of 1..MaxRows of these records, in the order of the pool
Tables ==
    { [i \in 1..Len(p) |-> RecordPool[p[i]]] :
        p \in { q \in SeqsUpTo(1..Len(RecordPool), MaxRows) :
                  /\ Len(q) >= 1
                  /\ \A i \in 1..(Len(q) - 1) : q[i] < q[i + 1] } }

\* load_data (app.py 33-37): pd.read_csv, then the labels are stripped
load_data(header, records) ==
    [cols |-> [i \in 1..Len(header) |-> strip(header[i])],
     rows |-> [r \in 1..Len(records) |->
                 [i \in 1..Len(header) |-> records[r][KindOf(strip(header[i]))]]]]

(***************************************************************************)
(* Lookup tables.                                                          *)
(***************************************************************************)
PackKeys ==
    { "Plastic", "Recycled Plastic", "Glass", "Aluminum", "Paper", "Cardboard",
      "Bioplastic", "Pump Bottle", "Aerosol Can", "Refill Pouch", "Tube",
      "Unknown" }

\* pack_map.get(k, 60) (app.py 100-113)
pack_map_get(k) ==
    CASE k = "Plastic"          -> 40
      [] k = "Recycled Plastic" -> 65
      [] k = "Glass"            -> 90
      [] k = "Aluminum"         -> 85
      [] k = "Paper"            -> 88
      [] k = "Cardboard"        -> 88
      [] k = "Bioplastic"       -> 70
      [] k = "Pump Bottle"      -> 50
      [] k = "Aerosol Can"      -> 30
      [] k = "Refill Pouch"     -> 80
      [] k = "Tube"             -> 45
      [] k = "Unknown"          -> 60
      [] OTHER                  -> 60

\* str(x) of a cell, as far as pack_map can tell values apart: a text is
\* itself, a number or NaN prints as something that is no packaging name
StrOf(v) == IF v.t = "str" THEN v.s ELSE "<not a packaging name>"

\* country_factor_map.get(c, 1.0) (app.py 124-128), in tenths
country_factor_get(v) ==
    IF v.t # "str" THEN 10
    ELSE CASE v.s = "USA"     -> 10
           [] v.s = "France"  -> 6
           [] v.s = "Germany" -> 8
           [] v.s = "India"   -> 15
           [] v.s = "China"   -> 18
           [] v.s = "Canada"  -> 7
           [] v.s = "Brazil"  -> 9
           [] v.s = "Japan"   -> 10
           [] OTHER           -> 10

(***************************************************************************)
(* Exact arithmetic on Python floats: a rational n/d in lowest terms with  *)
(* d > 0, or NaN.                                                          *)
(***************************************************************************)
Abs(x) == IF x < 0 THEN -x ELSE x

RECURSIVE GCD(_, _)
GCD(a, b) == IF b = 0 THEN a ELSE GCD(b, a % b)

FNaN == [nan |-> TRUE, n |-> 0, d |-> 1]
Rat(n, d) ==
    LET g == GCD(Abs(n), Abs(d))
        sg == IF d < 0 THEN -1 ELSE 1
    IN  [nan |-> FALSE, n |-> sg * (n \div g), d |-> sg * (d \div g)]
FInt(n) == Rat(n, 1)

FMul(a, b) == IF a.nan \/ b.nan THEN FNaN ELSE Rat(a.n * b.n, a.d * b.d)
\* only used with b # 0
FDiv(a, b) == IF a.nan \/ b.nan THEN FNaN ELSE Rat(a.n * b.d, a.d * b.n)
FAdd(a, b) == IF a.nan \/ b.nan THEN FNaN ELSE Rat(a.n * b.d + b.n * a.d, a.d * b.d)
FSub(a, b) == IF a.nan \/ b.nan THEN FNaN ELSE Rat(a.n * b.d - b.n * a.d, a.d * b.d)
\* comparisons with NaN are False, a != b with NaN is True
FLt(a, b) == ~a.nan /\ ~b.nan /\ a.n * b.d < b.n * a.d
FNe(a, b) == a.nan \/ b.nan \/ a # b

\* float(x) of a numeric cell holding n/scale
FloatOf(v, scale) == IF IsNum(v) THEN Rat(v.n, scale) ELSE FNaN

\* Python's max(a, b) and min(a, b): the first argument unless the second
\* is strictly greater (smaller)
PyMax(a, b) == IF FLt(a, b) THEN b ELSE a
PyMin(a, b) == IF FLt(b, a) THEN b ELSE a

\* round to the nearest integer of h/10, halves to the even neighbour
\* (Series.round)
RoundHalfEven10(h) ==
    LET q == h \div 10
        r == h % 10
    IN  IF r < 5 THEN q
        ELSE IF r > 5 THEN q + 1
        ELSE IF q % 2 = 0 THEN q ELSE q + 1

(***************************************************************************)
(* The page pass (the script body of app.py), one action per step.         *)
(***************************************************************************)
NoView == <<0>>
NoInsights == <<0>>
NoComp == [shown |-> FALSE, p1 |-> NaN, p2 |-> NaN, rows |-> <<>>]
NoSim == [ran |-> FALSE, sel_prod |-> NaN, new_pack |-> "", new_country |-> NaN,
          tweak |-> FNaN, base_pack |-> NaN, base_country |-> NaN,
          base_carbon |-> FNaN, base_eco |-> FNaN, base_recycle |-> FNaN,
          new_carbon |-> FNaN, eco_delta |-> FNaN,
          has_score |-> FALSE, sim_ecoscore |-> FNaN]
NoCOL == [f \in FieldSet |-> None]

\* the state of the script right after df = load_data()
Start(table) ==
    /\ loaded = table
    /\ df = table
    /\ COL = NoCOL
    /\ pc = "detect"
    /\ st_error = FALSE
    /\ error = "none"
    /\ df_view = NoView
    /\ comp = NoComp
    /\ sim = NoSim
    /\ insights = NoInsights

\* an uncaught exception ends the pass
Raise(e) ==
    /\ error' = e
    /\ pc' = "crashed"

\* app.py 48-56
DetectColumns(d) == [f \in FieldSet |-> find_col(d.cols, Candidates(f))]

Detect ==
    /\ pc = "detect"
    /\ COL' = DetectColumns(df)
    /\ pc' = "required"
    /\ UNCHANGED <<loaded, df, st_error, error, df_view, comp, sim, insights>>
    /\ UNCHANGED findVars

\* a plausible slip: only the product column is required
AllRequiredSlip(c) == Truthy(c["product"])

\* all(required) with required = [COL_PRODUCT, COL_CATEGORY] (app.py 59-60)
AllRequired(c) == Truthy(c["product"]) /\ Truthy(c["category"])

\* app.py 58-62: st.error and st.stop() end the pass
RequiredCheck ==
    /\ pc = "required"
    /\ IF ~AllRequired(COL)
       THEN st_error' = TRUE /\ pc' = "stopped"
       ELSE st_error' = st_error /\ pc' = "coerce"
    /\ UNCHANGED <<loaded, df, COL, error, df_view, comp, sim, insights>>
    /\ UNCHANGED findVars

\* if c: df[c] = pd.to_numeric(df[c], errors="coerce")
CoerceCol(d, c) ==
    IF Truthy(c)
    THEN SetCol(d, c, [r \in 1..NRows(d) |-> to_numeric(Cell(d, r, c))])
    ELSE d

\* app.py 64-72
CoerceAll(d, c) ==
    CoerceCol(CoerceCol(CoerceCol(CoerceCol(d, c["price"]), c["ecoscore"]),
                        c["carbon"]), c["recycle"])

Coerce ==
    /\ pc = "coerce"
    /\ df' = CoerceAll(df, COL)
    /\ pc' = "defaults"
    /\ UNCHANGED <<loaded, COL, st_error, error, df_view, comp, sim, insights>>
    /\ UNCHANGED findVars

\* if not c: df[label] = value
DefaultCol(d, c, label, value) ==
    IF ~Truthy(c) THEN SetCol(d, label, [r \in 1..NRows(d) |-> value]) ELSE d

\* app.py 74-87, the DataFrame
FillDefaultsDf(d, c) ==
    DefaultCol(
      DefaultCol(
        DefaultCol(
          DefaultCol(d, c["pack"], L_Packaging, T("Unknown")),
          c["ing"], L_Main_Ingredients, T("")),
        c["country"], L_Country, T("USA")),
      c["recycle"], L_Recyclability_Score, N(60))

\* app.py 74-87, the COL_* names
FillDefaultsCol(c) ==
    [c EXCEPT !["pack"] = IF ~Truthy(@) THEN L_Packaging ELSE @,
              !["ing"] = IF ~Truthy(@) THEN L_Main_Ingredients ELSE @,
              !["country"] = IF ~Truthy(@) THEN L_Country ELSE @,
              !["recycle"] = IF ~Truthy(@) THEN L_Recyclability_Score ELSE @]

FillDefaults ==
    /\ pc = "defaults"
    /\ df' = FillDefaultsDf(df, COL)
    /\ COL' = FillDefaultsCol(COL)
    /\ pc' = "initadj"
    /\ UNCHANGED <<loaded, st_error, error, df_view, comp, sim, insights>>
    /\ UNCHANGED findVars

\* app.py 89-95; df[COL_CARBON] with COL_CARBON = None raises KeyError
InitAdj ==
    /\ pc = "initadj"
    /\ IF HasCol(df, L_Adj_Carbon_Intensity) /\ COL["carbon"] # L_Adj_Carbon_Intensity
       THEN /\ df' = SetCol(df, L_Adj_Carbon_Intensity,
                        [r \in 1..NRows(df) |->
                            to_numeric(Cell(df, r, L_Adj_Carbon_Intensity))])
            /\ pc' = "recycle"
            /\ error' = error
       ELSE IF ~HasCol(df, L_Adj_Carbon_Intensity)
            THEN IF ~HasCol(df, COL["carbon"])
                 THEN Raise("KeyError") /\ df' = df
                 ELSE /\ df' = SetCol(df, L_Adj_Carbon_Intensity,
                                  [r \in 1..NRows(df) |-> Cell(df, r, COL["carbon"])])
                      /\ pc' = "recycle"
                      /\ error' = error
            ELSE /\ df' = df
                 /\ pc' = "recycle"
                 /\ error' = error
    /\ UNCHANGED <<loaded, COL, st_error, df_view, comp, sim, insights>>
    /\ UNCHANGED findVars

\* the condition of app.py 115
RecycleMissing(d, c) == ~HasCol(d, c["recycle"]) \/ AllNull(d, c["recycle"])

\* app.py 114-117
RecycleFallback ==
    /\ pc = "recycle"
    /\ IF RecycleMissing(df, COL)
       THEN /\ df' = SetCol(df, L_Recyclability_Score,
                        [r \in 1..NRows(df) |->
                            N(pack_map_get(StrOf(Cell(df, r, COL["pack"]))))])
            /\ COL' = [COL EXCEPT !["recycle"] = L_Recyclability_Score]
       ELSE UNCHANGED <<df, COL>>
    /\ pc' = "factor"
    /\ UNCHANGED <<loaded, st_error, error, df_view, comp, sim, insights>>
    /\ UNCHANGED findVars

\* app.py 123-128
CountryFactor ==
    /\ pc = "factor"
    /\ IF ~HasCol(df, L_Country_Emission_Factor)
       THEN df' = SetCol(df, L_Country_Emission_Factor,
                     [r \in 1..NRows(df) |->
                         N(country_factor_get(Cell(df, r, COL["country"])))])
       ELSE df' = df
    /\ pc' = "adjcompute"
    /\ UNCHANGED <<loaded, COL, st_error, error, df_view, comp, sim, insights>>
    /\ UNCHANGED findVars

\* (carbon * factor).round(1) on one row: tenths times tenths, rounded to
\* tenths
AdjProduct(carbon, factor) ==
    IF IsNum(carbon) /\ IsNum(factor)
    THEN N(RoundHalfEven10(carbon.n * factor.n))
    ELSE NaN

\* the condition of app.py 131
AdjMissing(d) ==
    ~HasCol(d, L_Adj_Carbon_Intensity) \/ AllNull(d, L_Adj_Carbon_Intensity)

\* app.py 130-132
AdjCompute ==
    /\ pc = "adjcompute"
    /\ IF AdjMissing(df)
       THEN df' = SetCol(df, L_Adj_Carbon_Intensity,
                     [r \in 1..NRows(df) |->
                         AdjProduct(Cell(df, r, COL["carbon"]),
                                    Cell(df, r, L_Country_Emission_Factor))])
       ELSE df' = df
    /\ pc' = "filter"
    /\ UNCHANGED <<loaded, COL, st_error, error, df_view, comp, sim, insights>>
    /\ UNCHANGED findVars

(***************************************************************************)
(* Sidebar filters (app.py 152-182).                                       *)
(***************************************************************************)
AllRows(d) == [r \in 1..NRows(d) |-> r]

\* the non-null values of column c over the rows of view, as a set
\* (dropna().unique())
UniqueNonNull(d, view, c) ==
    {Cell(d, view[k], c) : k \in 1..Len(view)} \ {NaN}

\* the numbers of column c over the rows of view
NumsOf(d, view, c) ==
    {Cell(d, view[k], c).n : k \in {j \in 1..Len(view) : IsNum(Cell(d, view[j], c))}}

SetMin(S) == CHOOSE x \in S : \A y \in S : x <= y
SetMax(S) == CHOOSE x \in S : \A y \in S : x >= y

\* df_view[df_view[c] == value]
WhereEq(d, view, c, value) ==
    SelectSeq(view, LAMBDA r : Cell(d, r, c) = value)

\* df_view[(df_view[c] >= lo) & (df_view[c] <= hi)]: NaN compares False
WhereBetween(d, view, c, lo, hi) ==
    SelectSeq(view, LAMBDA r :
        /\ IsNum(Cell(d, r, c)) /\ IsNum(lo) /\ IsNum(hi)
        /\ Cell(d, r, c).n >= lo.n
        /\ Cell(d, r, c).n <= hi.n)

\* df_view[df_view[c].isin(values)]
WhereIn(d, view, c, values) ==
    SelectSeq(view, LAMBDA r : Cell(d, r, c) \in values)

\* the slider positions considered: the default (min_s, max_s), the whole
\* scale and its upper half
EcoRanges(d, view, c) ==
    IF ~HasCol(d, c) THEN { <<N(0), N(100)>> }   \* eco_min, eco_max = 0, 100
    ELSE
    LET nums == NumsOf(d, view, c)
        min_s == IF nums = {} THEN 0 ELSE SetMin(nums)
        max_s == IF nums = {} THEN 100 ELSE SetMax(nums)
    IN  { <<N(min_s), N(max_s)>>, <<N(0), N(100)>>, <<N(50), N(100)>> }

\* the slider positions considered: the default (p_min, p_max) and the two
\* ends; min and max of a column without numbers are NaN
PriceRanges(d, view, c) ==
    IF ~HasCol(d, c) THEN { <<N(0), N(0)>> }     \* pr_min, pr_max = 0.0, 0.0
    ELSE
    LET nums == NumsOf(d, view, c)
    IN  IF nums = {} THEN { <<NaN, NaN>> }
        ELSE { <<N(SetMin(nums)), N(SetMax(nums))>>,
               <<N(SetMin(nums)), N(SetMin(nums))>>,
               <<N(SetMax(nums)), N(SetMax(nums))>> }

\* app.py 156-158
ByCategory(d, c, selected_category) ==
    IF selected_category # T("All")
    THEN WhereEq(d, AllRows(d), c["category"], selected_category)
    ELSE AllRows(d)

\* app.py 160-167
ByEcoScore(d, c, view, range) ==
    IF HasCol(d, c["ecoscore"])
    THEN WhereBetween(d, view, c["ecoscore"], range[1], range[2])
    ELSE view

\* app.py 169-176
ByPrice(d, c, view, range) ==
    IF HasCol(d, c["price"])
    THEN WhereBetween(d, view, c["price"], range[1], range[2])
    ELSE view

\* app.py 178-182
ByCountry(d, c, view, sel_countries) ==
    IF sel_countries # {}
    THEN WhereIn(d, view, c["country"], sel_countries)
    ELSE view

Filter ==
    /\ pc = "filter"
    /\ \E selected_category \in
            {T("All")} \cup UniqueNonNull(df, AllRows(df), COL["category"]) :
         LET v1 == ByCategory(df, COL, selected_category) IN
         \E eco \in EcoRanges(df, v1, COL["ecoscore"]) :
         LET v2 == ByEcoScore(df, COL, v1, eco) IN
         \E price \in PriceRanges(df, v2, COL["price"]) :
         LET v3 == ByPrice(df, COL, v2, price) IN
         \E sel_countries \in SUBSET UniqueNonNull(df, v3, COL["country"]) :
            df_view' = ByCountry(df, COL, v3, sel_countries)
    /\ pc' = "compare"
    /\ UNCHANGED <<loaded, df, COL, st_error, error, comp, sim, insights>>
    /\ UNCHANGED findVars

(***************************************************************************)
(* Compare Two Products (app.py 227-261).                                  *)
(***************************************************************************)
\* rows = df[df[COL_PRODUCT].isin([p1, p2])] (app.py 239)
CompareRows(d, c, p1, p2) ==
    WhereIn(d, AllRows(d), c["product"], {p1, p2})

Compare ==
    /\ pc = "compare"
    /\ LET prod_list == UniqueNonNull(df, df_view, COL["product"]) IN
       IF Cardinality(prod_list) < 2
       THEN comp' = NoComp
       ELSE \E p1, p2 \in prod_list :
               comp' = [shown |-> TRUE, p1 |-> p1, p2 |-> p2,
                        rows |-> CompareRows(df, COL, p1, p2)]
    /\ pc' = "simulate"
    /\ UNCHANGED <<loaded, df, COL, st_error, error, df_view, sim, insights>>
    /\ UNCHANGED findVars

(***************************************************************************)
(* What-If simulator (app.py 266-320).                                     *)
(***************************************************************************)
\* df[df[c] == value].iloc[0]: the first row holding value
FirstRowWith(d, c, value) ==
    CHOOSE r \in 1..NRows(d) :
        /\ Cell(d, r, c) = value
        /\ \A q \in 1..(r - 1) : Cell(d, q, c) # value

\* the packaging choices considered: the selectbox's default (the base
\* packaging when pack_map has it, else the first key) and the two extremes
PackChoices(base_pack) ==
    { IF base_pack.t = "str" /\ base_pack.s \in PackKeys
      THEN base_pack.s ELSE "Plastic",
      "Glass", "Aerosol Can" }

\* the slider positions considered, of 0.5 .. 2.0 in steps of 0.05
TweakChoices == { Rat(1, 2), FInt(1), FInt(2) }

\* app.py 292
BaseCountryFactor(d, row) == FloatOf(Cell(d, row, L_Country_Emission_Factor), 10)

\* app.py 294
NewCountryFactor(d, c, row, new_country) ==
    IF \E r \in 1..NRows(d) : Cell(d, r, c["country"]) = new_country
    THEN FloatOf(Cell(d, FirstRowWith(d, c["country"], new_country),
                      L_Country_Emission_Factor), 10)
    ELSE BaseCountryFactor(d, row)

\* app.py 298-308
NewCarbon(base_carbon, base_recycle, new_recycle, base_country_factor, new_country_factor, tweak) ==
    LET pack_effect_base == FDiv(FSub(FInt(100), base_recycle), FInt(100))
        pack_effect_new == FDiv(FSub(FInt(100), new_recycle), FInt(100))
        raw_base == IF base_country_factor # FInt(0)
                    THEN FDiv(base_carbon, base_country_factor)
                    ELSE base_carbon
        raw_new == FMul(raw_base,
                        IF FNe(pack_effect_base, FInt(0))
                        THEN FDiv(pack_effect_new, pack_effect_base)
                        ELSE FInt(1))
        new_carbon == FMul(FMul(raw_new, new_country_factor), tweak)
    IN  IF FLt(new_carbon, FInt(0)) THEN FInt(0) ELSE new_carbon

\* app.py 311
EcoDelta(base_carbon, base_recycle, new_recycle, new_carbon) ==
    FSub(FMul(FSub(new_recycle, base_recycle), Rat(15, 100)),
         FMul(FSub(new_carbon, base_carbon), Rat(2, 100)))

\* a plausible slip: only the upper end is clamped
SimEcoScoreNoFloor(base_eco, eco_delta) ==
    PyMin(FInt(100), FAdd(base_eco, eco_delta))

\* min(100, max(0, base_eco + eco_delta)) (app.py 314)
SimEcoScore(base_eco, eco_delta) ==
    PyMin(FInt(100), PyMax(FInt(0), FAdd(base_eco, eco_delta)))

Simulate ==
    /\ pc = "simulate"
    /\ \E sel_prod \in {Cell(df, r, COL["product"]) : r \in 1..NRows(df)} :
       LET row == FirstRowWith(df, COL["product"], sel_prod)
           has_eco == HasCol(df, COL["ecoscore"])
           base_eco == IF has_eco THEN FloatOf(Cell(df, row, COL["ecoscore"]), 1)
                       ELSE FNaN
           base_carbon == FloatOf(Cell(df, row, L_Adj_Carbon_Intensity), 10)
           base_country == Cell(df, row, COL["country"])
           base_pack == Cell(df, row, COL["pack"])
           base_recycle == FloatOf(Cell(df, row, COL["recycle"]), 1)
       IN
       IF ~HasCol(df, L_Country)
       THEN \* df["Country"] (app.py 284) raises KeyError
            Raise("KeyError") /\ sim' = sim
       ELSE
       \E new_pack \in PackChoices(base_pack) :
       \E new_country \in {Cell(df, r, L_Country) : r \in 1..NRows(df)} :
       \E tweak \in TweakChoices :
       LET new_recycle == FInt(pack_map_get(new_pack))
           base_country_factor == BaseCountryFactor(df, row)
           new_country_factor == NewCountryFactor(df, COL, row, new_country)
           new_carbon == NewCarbon(base_carbon, base_recycle, new_recycle,
                                   base_country_factor, new_country_factor, tweak)
           eco_delta == EcoDelta(base_carbon, base_recycle, new_recycle, new_carbon)
           has_score == has_eco /\ ~base_eco.nan
       IN  /\ sim' = [ran |-> TRUE, sel_prod |-> sel_prod, new_pack |-> new_pack,
                      new_country |-> new_country, tweak |-> tweak,
                      base_pack |-> base_pack, base_country |-> base_country,
                      base_carbon |-> base_carbon, base_eco |-> base_eco,
                      base_recycle |-> base_recycle,
                      new_carbon |-> new_carbon, eco_delta |-> eco_delta,
                      has_score |-> has_score,
                      sim_ecoscore |-> IF has_score
                                       THEN SimEcoScore(base_eco, eco_delta)
                                       ELSE FNaN]
           /\ pc' = "insights"
           /\ error' = error
    /\ UNCHANGED <<loaded, df, COL, st_error, df_view, comp, insights>>
    /\ UNCHANGED findVars

(***************************************************************************)
(* Carbon Insights (app.py 327-347).                                       *)
(***************************************************************************)
RECURSIVE SumOf(_)
SumOf(S) == IF S = {} THEN 0
            ELSE LET x == CHOOSE y \in S : TRUE IN x[2] + SumOf(S \ {x})

\* df_view[df_view[c] > df_view[c].mean()]: the mean skips NaN, and is NaN
\* when no number is left
AboveMean(d, view, c) ==
    LET idx == {k \in 1..Len(view) : IsNum(Cell(d, view[k], c))}
        total == SumOf({<<k, Cell(d, view[k], c).n>> : k \in idx})
    IN  SelectSeq(view, LAMBDA r :
            /\ idx # {}
            /\ IsNum(Cell(d, r, c))
            /\ Cell(d, r, c).n * Cardinality(idx) > total)

\* a plausible slip: the missing values are filled in place before the mean
\* is taken (df[...].fillna(0, inplace=True))
InsightsFillna ==
    /\ pc = "insights"
    /\ df' = SetCol(df, L_Adj_Carbon_Intensity,
                [r \in 1..NRows(df) |->
                    IF IsNull(Cell(df, r, L_Adj_Carbon_Intensity))
                    THEN N(0) ELSE Cell(df, r, L_Adj_Carbon_Intensity)])
    /\ insights' = AboveMean(df', df_view, L_Adj_Carbon_Intensity)
    /\ pc' = "done"
    /\ UNCHANGED <<loaded, COL, st_error, error, df_view, comp, sim>>
    /\ UNCHANGED findVars

Insights ==
    /\ pc = "insights"
    /\ insights' = AboveMean(df, df_view, L_Adj_Carbon_Intensity)
    /\ pc' = "done"
    /\ UNCHANGED <<loaded, df, COL, st_error, error, df_view, comp, sim>>
    /\ UNCHANGED findVars

(***************************************************************************)
(* A user interaction reruns the script from the top; load_data is cached  *)
(* (app.py 33) and hands the script the loaded table again.                *)
(***************************************************************************)
Rerun ==
    /\ pc \in {"done", "stopped", "crashed"}
    /\ df' = loaded
    /\ COL' = NoCOL
    /\ pc' = "detect"
    /\ st_error' = FALSE
    /\ error' = "none"
    /\ df_view' = NoView
    /\ comp' = NoComp
    /\ sim' = NoSim
    /\ insights' = NoInsights
    /\ UNCHANGED loaded
    /\ UNCHANGED findVars

(***************************************************************************)
(* Specifications.                                                         *)
(***************************************************************************)
EmptyTable == [cols |-> <<>>, rows |-> <<>>]

Init ==
    /\ fc_cols = <<>>
    /\ fc_cands = <<>>
    /\ fc_result = None
    /\ \E schema \in Schemas, records \in Tables :
          Start(load_data(HeaderOf(schema), records))

Next ==
    \/ Detect
    \/ RequiredCheck
    \/ Coerce
    \/ FillDefaults
    \/ InitAdj
    \/ RecycleFallback
    \/ CountryFactor
    \/ AdjCompute
    \/ Filter
    \/ Compare
    \/ Simulate
    \/ Insights
    \/ Rerun

Spec == Init /\ [][Next]_vars

InitFind ==
    /\ FindInit
    /\ loaded = EmptyTable
    /\ df = EmptyTable
    /\ COL = NoCOL
    /\ pc = "idle"
    /\ st_error = FALSE
    /\ error = "none"
    /\ df_view = NoView
    /\ comp = NoComp
    /\ sim = NoSim
    /\ insights = NoInsights

NextFind == FindColCall /\ UNCHANGED pageVars

SpecFind == InitFind /\ [][NextFind]_vars

(***************************************************************************)
(* Properties.                                                             *)
(***************************************************************************)
\* lower(strip(s)): how find_col compares labels
Norm(s) == lower(strip(s))

FcExactAt(i) ==
    \E j \in 1..Len(fc_cols) : Norm(fc_cols[j]) = Norm(fc_cands[i])
FcSubAt(i, j) == IsSubstr(Norm(fc_cands[i]), Norm(fc_cols[j]))

\* C1: find_col returns a column equal (trimmed, case-insensitive) to the
\* first alias, in alias order, that has an exact match; only when no alias
\* has one, the first column, in table order, containing the first alias, in
\* alias order, that occurs as a substring; None when neither pass matches.
C1_FindColOrder ==
    fc_result # Pending =>
        IF \E i \in 1..Len(fc_cands) : FcExactAt(i)
        THEN LET i0 == CHOOSE i \in 1..Len(fc_cands) :
                          FcExactAt(i) /\ \A k \in 1..(i - 1) : ~FcExactAt(k)
             IN  \E j \in 1..Len(fc_cols) :
                    /\ fc_result = strip(fc_cols[j])
                    /\ Norm(fc_cols[j]) = Norm(fc_cands[i0])
        ELSE IF \E i \in 1..Len(fc_cands), j \in 1..Len(fc_cols) : FcSubAt(i, j)
        THEN LET i0 == CHOOSE i \in 1..Len(fc_cands) :
                          /\ \E j \in 1..Len(fc_cols) : FcSubAt(i, j)
                          /\ \A k \in 1..(i - 1), j \in 1..Len(fc_cols) : ~FcSubAt(k, j)
                 j0 == CHOOSE j \in 1..Len(fc_cols) :
                          FcSubAt(i0, j) /\ \A k \in 1..(j - 1) : ~FcSubAt(i0, k)
             IN  fc_result = strip(fc_cols[j0])
        ELSE fc_result = None

\* C1, the case it singles out: a higher-priority alias matches a column
\* only as a substring, a lower-priority alias matches another column
\* exactly, and the exactly matching column was returned
C1_ExactBeatsSubstring ==
    /\ fc_result # Pending
    /\ \E i1, i2 \in 1..Len(fc_cands) :
          /\ i1 < i2
          /\ ~FcExactAt(i1)
          /\ FcExactAt(i2)
          /\ \E j \in 1..Len(fc_cols) :
                FcSubAt(i1, j) /\ Norm(fc_cols[j]) # Norm(fc_result)
          /\ Norm(fc_result) = Norm(fc_cands[i2])

\* what the detection finds in the loaded table
ResolvedAtLoad(f) == find_col(loaded.cols, Candidates(f)) # None

AfterRecycle == {"factor", "adjcompute", "filter", "compare", "simulate",
                 "insights", "done"}
AfterNormalisation == {"filter", "compare", "simulate", "insights", "done"}

\* C2: without a recyclability column in the input, each record's
\* recyclability score is the lookup-table score of its packaging type
\* (60 only for a packaging that is not in the table).
C2_RecyclabilityFromPackaging ==
    (pc \in AfterRecycle /\ ~ResolvedAtLoad("recycle")) =>
        \A r \in 1..NRows(df) :
            Cell(df, r, COL["recycle"]) =
                N(pack_map_get(StrOf(Cell(df, r, COL["pack"]))))

\* C3: with a raw carbon column and no Adj_Carbon_Intensity column in the
\* input, each record's adjusted carbon intensity is its raw carbon
\* intensity times its country's emission factor.
C3_AdjustedCarbonIsRawTimesFactor ==
    (/\ pc \in AfterNormalisation
     /\ ResolvedAtLoad("carbon")
     /\ ~HasCol(loaded, L_Adj_Carbon_Intensity)) =>
        \A r \in 1..NRows(df) :
            LET raw == Cell(df, r, COL["carbon"])
                adj == Cell(df, r, L_Adj_Carbon_Intensity)
                factor == country_factor_get(Cell(df, r, COL["country"]))
            IN  IF IsNum(raw)
                THEN IsNum(adj) /\ adj.n * 10 = raw.n * factor
                ELSE IsNull(adj)

OptionalFields == FieldSet \ {"product", "category"}

\* C4: when product and category resolve and some optional fields do not,
\* the page pass raises no exception.
C4_NoExceptionWithoutOptionalFields ==
    (/\ ResolvedAtLoad("product")
     /\ ResolvedAtLoad("category")
     /\ \E f \in OptionalFields : ~ResolvedAtLoad(f)) => error = "none"

\* C5: simulating with the record's own packaging, its own country and
\* tweak = 1.0 gives back the record's adjusted carbon and its EcoScore.
C5_WhatIfIdentity ==
    (/\ sim.ran
     /\ sim.base_pack = T(sim.new_pack)
     /\ sim.new_country = sim.base_country
     /\ sim.tweak = FInt(1)) =>
        /\ sim.new_carbon = sim.base_carbon
        /\ sim.has_score => sim.sim_ecoscore = sim.base_eco

MissingRequired == ~(ResolvedAtLoad("product") /\ ResolvedAtLoad("category"))

\* C6: when product or category cannot be resolved, the pass shows the
\* schema error and stops: no coercion, filter, comparison or simulation
\* step runs, and no exception is raised; the error is shown in no other
\* case.
C6_SchemaErrorStops ==
    /\ st_error => pc = "stopped"
    /\ pc = "stopped" => st_error /\ MissingRequired
    /\ \/ /\ pc \in {"detect", "required", "stopped"}
          /\ df = loaded
          /\ df_view = NoView /\ comp = NoComp /\ sim = NoSim
          /\ insights = NoInsights
          /\ error = "none"
       \/ ~MissingRequired

\* C6: the pass has stopped on the schema error
C6_Stopped == pc = "stopped" /\ st_error /\ MissingRequired

\* C7: a simulated EcoScore lies in [0, 100].
C7_SimEcoScoreClamped ==
    (sim.ran /\ sim.has_score) =>
        /\ ~sim.sim_ecoscore.nan
        /\ 0 <= sim.sim_ecoscore.n
        /\ sim.sim_ecoscore.n <= 100 * sim.sim_ecoscore.d

\* C7: base EcoScore plus eco_delta fell below 0 and the score shown is 0
C7_ClampedFromBelow ==
    /\ sim.ran /\ sim.has_score
    /\ FLt(FAdd(sim.base_eco, sim.eco_delta), FInt(0))
    /\ sim.sim_ecoscore = FInt(0)

FoundExactly(f) ==
    /\ COL[f] # None
    /\ \E i \in 1..Len(Candidates(f)) : Norm(Candidates(f)[i]) = lower(COL[f])

C10_ComparedRowsAreInView ==
    comp.shown =>
        \A k \in 1..Len(comp.rows) :
            /\ \E j \in 1..Len(df_view) : df_view[j] = comp.rows[k]
            /\ Cell(df, comp.rows[k], COL["product"]) \in {comp.p1, comp.p2}
=============================================================================
